---- MODULE Spec2Model ----
(***************************************************************************)
(* State-machine model of pyads/pyads.py: the request layer                *)
(* (adsSyncReadReq, adsSyncWriteReq, adsSyncReadWriteReq,                  *)
(* adsSyncWriteControlReq), the symbolic helpers (adsSyncReadByName,       *)
(* adsSyncWriteByName) and the device notifications                        *)
(* (adsSyncAddDeviceNotificationReq, adsSyncDelDeviceNotificationReq,      *)
(* callback_store), each behind the win32_only decorator.                 *)
(*                                                                         *)
(* Every call into TcAdsDll is one atomic step: ctypes releases the        *)
(* interpreter lock around a foreign call, so another thread may run       *)
(* between the return of a DLL call and the next Python statement.         *)
(* The statements between two DLL calls of one function are folded into    *)
(* the step of the DLL call that precedes them, except the writes to the   *)
(* module-level dictionary callback_store, which are steps of their own.   *)
(*                                                                         *)
(* The device behind the DLL answers every call with status 0 or with an   *)
(* error code. A call answered with an error code changes nothing on the   *)
(* device; a release request is counted whatever its status. Symbol        *)
(* handles are never handed out twice; a notification handle may be handed *)
(* out again once it has been deregistered. The device keeps one value per *)
(* symbolic variable; a read or write on a handle addresses the variable   *)
(* the handle was handed out for.                                          *)
(***************************************************************************)
EXTENDS Integers, Sequences, FiniteSets, TLC

VARIABLES
    pc,             \* pc[t]: position of thread t ("idle" = no call running)
    op,             \* op[t]: the function thread t runs (or ran last) and its arguments
    loc,            \* loc[t]: local variables hnl, c_callback, pNotification, err_code,
                    \* value
    calls,          \* calls[t]: the DLL calls issued by t's current (or last) invocation
    result,         \* result[t]: how t's last invocation ended
    callback_store, \* the module-level dictionary callback_store
    devReg,         \* device: the notification registered under each notification handle
    relCount,       \* device: release requests received for each symbol handle
    nextHnl,        \* device: next symbol handle to hand out
    subs,           \* subscriptions the callers hold: the pairs add returned that the
                    \* device has not deregistered; del = a teardown was called on it
    nops,           \* calls and notifications the behaviour may still start
    invoked,        \* the last notification delivered: the handle, the thunk the
                    \* device held for it, and the callback that ran
    env,            \* what a behaviour runs in: the platform, and the arguments
                    \* its callers pass
    devVal,         \* device: the value of each symbolic variable
    hndName         \* device: the symbol each handle was handed out for

vars == <<pc, op, loc, calls, result, callback_store, devReg, relCount,
          nextHnl, subs, nops, invoked,
                   env, devVal, hndName>>

(***************************************************************************)
(* Bounds and input sets                                                   *)
(***************************************************************************)
MaxOps == 3            \* calls and notifications per behaviour of Spec and SpecReq
MaxNotifOps == 4       \* the same, of SpecNotif
MaxStrLen == 2         \* characters of a string payload

Threads == {"t1", "t2"}
Names == {"MAIN.bVar"}
Symbols == {"MAIN.bVar", "MAIN.iVar"}   \* the symbolic variables of the device
Values == {0, 1}                        \* the values a variable takes
Callbacks == {"cbA", "cbB"}
ErrCodes == {1808, 1861}
Status == {0} \cup ErrCodes
NotifHandles == {1, 2}
Hnls == 1..(MaxOps + MaxNotifOps)  \* one handle per call at most
UserHandles == {0, 77}         \* 0 stands for user_handle=None

\* Code points of the characters of a string payload: one that UTF-8 encodes in
\* one byte, one in two and one in three.
Chars == {97, 233, 8364}

\* The texts of at most MaxStrLen characters.
Texts == UNION {[1..k -> Chars] : k \in 0..MaxStrLen}

ADSIGRP_SYM_HNDBYNAME == "ADSIGRP_SYM_HNDBYNAME"
ADSIGRP_SYM_VALBYHND == "ADSIGRP_SYM_VALBYHND"
ADSIGRP_SYM_RELEASEHND == "ADSIGRP_SYM_RELEASEHND"
INDEXGROUP_OTHER == "INDEXGROUP_MEMORYBYTE"

(***************************************************************************)
(* Values                                                                  *)
(***************************************************************************)
\* class ADSError: the exception carries the status it was built from.
ADSError(err_code) == [kind |-> "ADSError", err_code |-> err_code, value |-> <<>>]

\* A normal return with value v (a tuple; <<>> for None).
Returned(v) == [kind |-> "return", err_code |-> 0, value |-> v]

Running == [kind |-> "running", err_code |-> 0, value |-> <<>>]

\* ReqOutcome with the status ignored: every call counts as a success.
ReqOutcomeSwallowed(errCode, v) == Returned(v)

\* `if errCode: raise ADSError(errCode)` followed by the function's return.
ReqOutcome(errCode, v) == IF errCode # 0 THEN ADSError(errCode) ELSE Returned(v)

\* One call into the DLL, with the status the DLL returned.
\* off and data are numbers (a handle, a value, or 0), text is a symbol name or
\* a string payload (or "-"), len is the length passed with a string payload
\* and ret is what the call read back (both 0 where there is none).
DllCall(fn, grp, off, data, text, status) ==
    [fn |-> fn, grp |-> grp, off |-> off, data |-> data, text |-> text,
     status |-> status, len |-> 0, ret |-> 0]

\* The RuntimeError of win32_only.
RuntimeError == [kind |-> "RuntimeError", err_code |-> 0, value |-> <<>>]

NoThunk == [kind |-> "missing", id |-> 0, cb |-> "-"]
PyNone == [kind |-> "None", id |-> 0, cb |-> "-"]
Thunk(id, cb) == [kind |-> "thunk", id |-> id, cb |-> cb]

NoReg == [thunk |-> NoThunk, huser |-> 0]

NoLoc == [hnl |-> 0, c_callback |-> NoThunk, pNotification |-> 0, err_code |-> 0,
          value |-> 0]

NoOp == [fn |-> "-", name |-> "-", callback |-> "-", user_handle |-> 0,
         notification_handle |-> 0, value |-> 0]

\* Arguments of adsSyncDelDeviceNotificationReq that no add returned.
Strays == {[n |-> n, hnl |-> 0, del |-> FALSE] : n \in NotifHandles}

\* A Windows host whose callers use one symbol and one value, and pass
\* adsSyncDelDeviceNotificationReq only what an add returned.
DefaultEnv == [windows |-> TRUE, names |-> Names, values |-> {0}, stray |-> {}]

InitEnv(budget, e) ==
    /\ pc = [t \in Threads |-> "idle"]
    /\ op = [t \in Threads |-> NoOp]
    /\ loc = [t \in Threads |-> NoLoc]
    /\ calls = [t \in Threads |-> <<>>]
    /\ result = [t \in Threads |-> Returned(<<>>)]
    /\ callback_store = [n \in NotifHandles |-> NoThunk]
    /\ devReg = [n \in NotifHandles |-> NoReg]
    /\ relCount = [h \in Hnls |-> 0]
    /\ nextHnl = 1
    /\ subs = {}
    /\ nops = budget
    /\ invoked = [n |-> 0, thunk |-> NoThunk, cb |-> "-"]
    /\ env = e
    /\ devVal = [x \in Symbols |-> 0]
    /\ hndName = [h \in Hnls |-> "-"]

InitBut(budget) == InitEnv(budget, DefaultEnv)

Init == InitBut(MaxOps)

InitNotif == InitBut(MaxNotifOps)

\* Callers that use every symbol and every value.
InitVal == InitEnv(MaxOps, [DefaultEnv EXCEPT !.names = Symbols, !.values = Values])

\* A host that is not Windows.
InitPosix == InitEnv(MaxOps, [DefaultEnv EXCEPT !.windows = FALSE, !.stray = Strays])

\* Callers that also tear down notification handles nobody registered.
InitStray == InitEnv(MaxOps, [DefaultEnv EXCEPT !.stray = Strays])

(***************************************************************************)
(* Helpers shared by the steps                                             *)
(***************************************************************************)
\* A thread with no call running enters function o.fn with arguments o.
Begin(t, o) ==
    /\ pc[t] = "idle"
    /\ nops > 0
    /\ nops' = nops - 1
    /\ op' = [op EXCEPT ![t] = o]

\* win32_only with the platform test left out.
PlatformIgnored == TRUE

\* platform_is_windows(), as win32_only asks it
platform_is_windows == env.windows

\* The running function of t returns or raises r; its locals are gone.
Finish(t, r) ==
    /\ pc' = [pc EXCEPT ![t] = "idle"]
    /\ result' = [result EXCEPT ![t] = r]
    /\ loc' = [loc EXCEPT ![t] = NoLoc]

\* win32_only on another platform: raise RuntimeError(...) in place of fn(...)
Refused(t, o) ==
    /\ Begin(t, o)
    /\ calls' = [calls EXCEPT ![t] = <<>>]
    /\ Finish(t, RuntimeError)

\* The running function of t goes on to its next statement, with locals l.
Goto(t, nextpc, l) ==
    /\ pc' = [pc EXCEPT ![t] = nextpc]
    /\ result' = [result EXCEPT ![t] = Running]
    /\ loc' = [loc EXCEPT ![t] = l]

\* A thunk is alive while some Python reference holds it: an entry of
\* callback_store, or the local c_callback of a running
\* adsSyncAddDeviceNotificationReq.
Live(th) ==
    \/ \E n \in NotifHandles : callback_store[n] = th
    \/ \E t \in Threads : pc[t] = "add_store" /\ loc[t].c_callback = th

\* hnl = adsSyncReadWriteReq(adr, ADSIGRP_SYM_HNDBYNAME, 0x0, PLCTYPE_UDINT,
\*                           dataName, PLCTYPE_STRING)
\* the first statement of adsSyncReadByName, adsSyncWriteByName and
\* adsSyncAddDeviceNotificationReq; on status 0 the device hands out a handle.
Resolve(t, o, nextpc) ==
    IF ~platform_is_windows
    THEN Refused(t, o) /\ UNCHANGED <<nextHnl, hndName>>
    ELSE
    \E s \in Status :
        LET r == ReqOutcome(s, <<nextHnl>>)
            c == DllCall("AdsSyncReadWriteReq", ADSIGRP_SYM_HNDBYNAME, 0, 0, o.name, s)
        IN
        /\ Begin(t, o)
        /\ IF r.kind = "ADSError"
           THEN /\ calls' = [calls EXCEPT ![t] = <<c>>]
                /\ Finish(t, r)
                /\ UNCHANGED <<nextHnl, hndName>>
           ELSE /\ calls' = [calls EXCEPT ![t] = <<[c EXCEPT !.ret = r.value[1]]>>]
                /\ Goto(t, nextpc, [NoLoc EXCEPT !.hnl = r.value[1]])
                /\ nextHnl' = nextHnl + 1
                /\ hndName' = [hndName EXCEPT ![nextHnl] = o.name]

\* Device: the variable a read or write on handle h addresses ("-" if none).
SymbolOf(h) == IF h \in DOMAIN hndName THEN hndName[h] ELSE "-"

\* Device: the value a read on handle h returns.
DevRead(h) == IF SymbolOf(h) \in Symbols THEN devVal[SymbolOf(h)] ELSE 0

\* Device: the values after a write of v on handle h.
DevWrite(h, v) ==
    IF SymbolOf(h) \in Symbols THEN [devVal EXCEPT ![SymbolOf(h)] = v] ELSE devVal

\* Release with the handle sent as the index offset, not as the payload.
ReleaseByOffset(t, h, v) ==
    \E s \in Status :
        /\ calls' = [calls EXCEPT ![t] =
               Append(@, DllCall("AdsSyncWriteReq", ADSIGRP_SYM_RELEASEHND, h, 0, "-", s))]
        /\ UNCHANGED relCount
        /\ Finish(t, ReqOutcome(s, v))

\* adsSyncWriteReq(adr, ADSIGRP_SYM_RELEASEHND, 0, h, PLCTYPE_UDINT): the last
\* statement of adsSyncReadByName, adsSyncWriteByName and
\* adsSyncDelDeviceNotificationReq; v is what the function returns after it.
Release(t, h, v) ==
    \E s \in Status :
        /\ calls' = [calls EXCEPT ![t] =
               Append(@, DllCall("AdsSyncWriteReq", ADSIGRP_SYM_RELEASEHND, 0, h, "-", s))]
        /\ relCount' = [x \in Hnls |-> IF x = h THEN relCount[x] + 1 ELSE relCount[x]]
        /\ Finish(t, ReqOutcome(s, v))

(***************************************************************************)
(* Request layer, called directly                                          *)
(***************************************************************************)
DirectOp(fn) == [NoOp EXCEPT !.fn = fn]

\* errCode = <dll>(...); if errCode: raise ADSError(errCode); return v
\* with s the status the DLL returns.
Direct(t, fn, dll, s, v) ==
    IF ~platform_is_windows
    THEN Refused(t, DirectOp(fn))
    ELSE /\ Begin(t, DirectOp(fn))
         /\ calls' = [calls EXCEPT ![t] = <<DllCall(dll, INDEXGROUP_OTHER, 0, 0, "-", s)>>]
         /\ Finish(t, ReqOutcome(s, v))

adsSyncWriteControlReq(t) ==
    /\ \E s \in Status :
           Direct(t, "adsSyncWriteControlReq", "AdsSyncWriteControlReq", s, <<>>)
    /\ UNCHANGED <<callback_store, devReg, relCount, nextHnl, subs, invoked,
                   env, devVal, hndName>>

adsSyncWriteReq(t) ==
    /\ \E s \in Status : Direct(t, "adsSyncWriteReq", "AdsSyncWriteReq", s, <<>>)
    /\ UNCHANGED <<callback_store, devReg, relCount, nextHnl, subs, invoked,
                   env, devVal, hndName>>

adsSyncReadWriteReq(t) ==
    /\ \E s \in Status :
           Direct(t, "adsSyncReadWriteReq", "AdsSyncReadWriteReq", s, <<"value">>)
    /\ UNCHANGED <<callback_store, devReg, relCount, nextHnl, subs, invoked,
                   env, devVal, hndName>>

adsSyncReadReq(t) ==
    /\ \E s \in Status : Direct(t, "adsSyncReadReq", "AdsSyncReadReq", s, <<"value">>)
    /\ UNCHANGED <<callback_store, devReg, relCount, nextHnl, subs, invoked,
                   env, devVal, hndName>>

(***************************************************************************)
(* Request layer, called directly with a string payload                    *)
(***************************************************************************)
\* The UTF-8 bytes of the character with code point c.
Utf8(c) ==
    IF c < 128 THEN <<c>>
    ELSE IF c < 2048 THEN <<192 + (c \div 64), 128 + (c % 64)>>
    ELSE <<224 + (c \div 4096), 128 + ((c \div 64) % 64), 128 + (c % 64)>>

\* str.encode(): the bytes of the text, character by character.
RECURSIVE encode(_)
encode(text) == IF text = <<>> THEN <<>> ELSE Utf8(Head(text)) \o encode(Tail(text))

\* c_char_p(b).value: the bytes up to the first zero byte.
RECURSIVE CValue(_)
CValue(b) ==
    IF b = <<>> \/ Head(b) = 0 THEN <<>> ELSE <<Head(b)>> \o CValue(Tail(b))

\* Direct with the text and the length handed to the DLL recorded in the call.
DirectString(t, fn, dll, s, v, text, nLength) ==
    IF ~platform_is_windows
    THEN Refused(t, DirectOp(fn))
    ELSE /\ Begin(t, DirectOp(fn))
         /\ calls' = [calls EXCEPT ![t] =
                <<[DllCall(dll, INDEXGROUP_OTHER, 0, 0, text, s) EXCEPT !.len = nLength]>>]
         /\ Finish(t, ReqOutcome(s, v))

\* nData = c_char_p(data.encode()); pData = nData; nLength = len(pData.value) + 1
adsSyncWriteControlReqString(t) ==
    /\ \E s \in Status, data \in Texts :
           LET nLength == Len(CValue(encode(data))) + 1 IN
           DirectString(t, "adsSyncWriteControlReq", "AdsSyncWriteControlReq", s, <<>>,
                        data, nLength)
    /\ UNCHANGED <<callback_store, devReg, relCount, nextHnl, subs, invoked,
                   env, devVal, hndName>>

\* nData = c_char_p(value.encode()); pData = nData; nLength = len(pData.value) + 1
adsSyncWriteReqString(t) ==
    /\ \E s \in Status, value \in Texts :
           LET nLength == Len(CValue(encode(value))) + 1 IN
           DirectString(t, "adsSyncWriteReq", "AdsSyncWriteReq", s, <<>>, value, nLength)
    /\ UNCHANGED <<callback_store, devReg, relCount, nextHnl, subs, invoked,
                   env, devVal, hndName>>

\* ascii_string = value.encode(); data = c_char_p(ascii_string)
\* data_length = len(value) + 1
adsSyncReadWriteReqString(t) ==
    /\ \E s \in Status, value \in Texts :
           LET data_length == Len(value) + 1 IN
           DirectString(t, "adsSyncReadWriteReq", "AdsSyncReadWriteReq", s, <<"value">>,
                        value, data_length)
    /\ UNCHANGED <<callback_store, devReg, relCount, nextHnl, subs, invoked,
                   env, devVal, hndName>>

(***************************************************************************)
(* adsSyncReadByName                                                       *)
(***************************************************************************)
ByNameOp(fn, name) == [NoOp EXCEPT !.fn = fn, !.name = name]

ReadByNameResolve(t) ==
    /\ \E name \in env.names :
           Resolve(t, ByNameOp("adsSyncReadByName", name), "rbn_read")
    /\ UNCHANGED <<callback_store, devReg, relCount, subs, invoked, env, devVal>>

\* ReadByNameRead with the release in a `finally` clause whose own exception
\* replaces the one in flight.
ReadByNameReadMasking(t) ==
    /\ pc[t] = "rbn_read"
    /\ \E s \in Status :
        LET r == ReqOutcome(s, <<DevRead(loc[t].hnl)>>)
            read == DllCall("AdsSyncReadReq", ADSIGRP_SYM_VALBYHND, loc[t].hnl, 0, "-", s)
        IN
        IF r.kind = "ADSError"
        THEN \E s2 \in Status :
             /\ calls' = [calls EXCEPT ![t] =
                    Append(Append(@, read),
                           DllCall("AdsSyncWriteReq", ADSIGRP_SYM_RELEASEHND, 0,
                                   loc[t].hnl, "-", s2))]
             /\ relCount' = [relCount EXCEPT ![loc[t].hnl] = @ + 1]
             /\ Finish(t, IF s2 # 0 THEN ADSError(s2) ELSE r)
        ELSE /\ calls' = [calls EXCEPT ![t] = Append(@, [read EXCEPT !.ret = r.value[1]])]
             /\ Goto(t, "rbn_release", [loc[t] EXCEPT !.value = r.value[1]])
             /\ UNCHANGED relCount
    /\ UNCHANGED <<op, callback_store, devReg, nextHnl, subs, nops, invoked,
                   env, devVal, hndName>>

\* ReadByNameRelease returning the handle in place of the value read.
ReadByNameReleaseReturningHandle(t) ==
    /\ pc[t] = "rbn_release"
    /\ \E s \in Status :
        /\ calls' = [calls EXCEPT ![t] =
               Append(@, DllCall("AdsSyncWriteReq", ADSIGRP_SYM_RELEASEHND, 0,
                                 loc[t].hnl, "-", s))]
        /\ relCount' = [relCount EXCEPT ![loc[t].hnl] = @ + 1]
        /\ Finish(t, ReqOutcome(s, <<loc[t].hnl>>))
    /\ UNCHANGED <<op, callback_store, devReg, nextHnl, subs, nops, invoked,
                   env, devVal, hndName>>

\* value = adsSyncReadReq(adr, ADSIGRP_SYM_VALBYHND, hnl, plcDataType)
\* The device answers with the value of the variable the handle addresses.
ReadByNameRead(t) ==
    /\ pc[t] = "rbn_read"
    /\ \E s \in Status :
        LET r == ReqOutcome(s, <<DevRead(loc[t].hnl)>>)
            c == DllCall("AdsSyncReadReq", ADSIGRP_SYM_VALBYHND, loc[t].hnl, 0, "-", s)
        IN
        IF r.kind = "ADSError"
        THEN /\ calls' = [calls EXCEPT ![t] = Append(@, c)]
             /\ Finish(t, r)
        ELSE /\ calls' = [calls EXCEPT ![t] = Append(@, [c EXCEPT !.ret = r.value[1]])]
             /\ Goto(t, "rbn_release", [loc[t] EXCEPT !.value = r.value[1]])
    /\ UNCHANGED <<op, callback_store, devReg, relCount, nextHnl, subs, nops, invoked,
                   env, devVal, hndName>>

\* adsSyncWriteReq(adr, ADSIGRP_SYM_RELEASEHND, 0, hnl, PLCTYPE_UDINT); return value
ReadByNameRelease(t) ==
    /\ pc[t] = "rbn_release"
    /\ Release(t, loc[t].hnl, <<loc[t].value>>)
    /\ UNCHANGED <<op, callback_store, devReg, nextHnl, subs, nops, invoked,
                   env, devVal, hndName>>

(***************************************************************************)
(* adsSyncWriteByName                                                      *)
(***************************************************************************)
WriteByNameResolve(t) ==
    /\ \E name \in env.names, value \in env.values :
           Resolve(t, [ByNameOp("adsSyncWriteByName", name) EXCEPT !.value = value],
                   "wbn_write")
    /\ UNCHANGED <<callback_store, devReg, relCount, subs, invoked, env, devVal>>

\* adsSyncWriteReq(adr, ADSIGRP_SYM_VALBYHND, hnl, value, plcDataType)
\* On status 0 the device stores the value in the variable the handle addresses.
WriteByNameWrite(t) ==
    /\ pc[t] = "wbn_write"
    /\ \E s \in Status :
        LET r == ReqOutcome(s, <<>>)
            c == DllCall("AdsSyncWriteReq", ADSIGRP_SYM_VALBYHND, loc[t].hnl,
                         op[t].value, "-", s)
        IN
        /\ calls' = [calls EXCEPT ![t] = Append(@, c)]
        /\ IF r.kind = "ADSError"
           THEN /\ Finish(t, r)
                /\ UNCHANGED devVal
           ELSE /\ Goto(t, "wbn_release", loc[t])
                /\ devVal' = DevWrite(c.off, c.data)
    /\ UNCHANGED <<op, callback_store, devReg, relCount, nextHnl, subs, nops, invoked,
                   env, hndName>>

\* adsSyncWriteReq(adr, ADSIGRP_SYM_RELEASEHND, 0, hnl, PLCTYPE_UDINT)
WriteByNameRelease(t) ==
    /\ pc[t] = "wbn_release"
    /\ Release(t, loc[t].hnl, <<>>)
    /\ UNCHANGED <<op, callback_store, devReg, nextHnl, subs, nops, invoked,
                   env, devVal, hndName>>

(***************************************************************************)
(* adsSyncAddDeviceNotificationReq                                         *)
(***************************************************************************)
AddOp(name, cb, uh) ==
    [NoOp EXCEPT !.fn = "adsSyncAddDeviceNotificationReq", !.name = name,
                 !.callback = cb, !.user_handle = uh]

\* Resolve that goes on to the next statement whatever the status.
ResolveUnchecked(t, o, nextpc) ==
    \E s \in Status :
        LET c == DllCall("AdsSyncReadWriteReq", ADSIGRP_SYM_HNDBYNAME, 0, 0, o.name, s) IN
        /\ Begin(t, o)
        /\ calls' = [calls EXCEPT ![t] = <<[c EXCEPT !.ret = nextHnl]>>]
        /\ Goto(t, nextpc, [NoLoc EXCEPT !.hnl = nextHnl])
        /\ nextHnl' = nextHnl + 1
        /\ hndName' = [hndName EXCEPT ![nextHnl] = o.name]

\* AddResolve without the status check of the name resolution.
AddResolveUnchecked(t) ==
    /\ \E name \in env.names, cb \in Callbacks, uh \in UserHandles :
           ResolveUnchecked(t, AddOp(name, cb, uh), "add_register")
    /\ UNCHANGED <<callback_store, devReg, relCount, subs, invoked, env, devVal>>

AddResolve(t) ==
    /\ \E name \in env.names, cb \in Callbacks, uh \in UserHandles :
           Resolve(t, AddOp(name, cb, uh), "add_register")
    /\ UNCHANGED <<callback_store, devReg, relCount, subs, invoked, env, devVal>>

\* nHUser = c_ulong(hnl); if user_handle is not None: nHUser = c_ulong(user_handle)
HUser(user_handle, hnl) == IF user_handle # 0 THEN user_handle ELSE hnl

\* c_callback = NOTEFUNC(callback)
\* err_code = AdsSyncAddDeviceNotificationReq(pAmsAddr, nIndexGroup, nIndexOffset,
\*                pointer(attrib), c_callback, nHUser, pointer(pNotification))
\* if err_code: raise ADSError(err_code)
\* On status 0 the device registers the thunk under a notification handle that is
\* not in use. Each call builds a new thunk; the handle resolved by the same call
\* serves as its identity.
AddRegister(t) ==
    /\ pc[t] = "add_register"
    /\ \E s \in Status :
        LET c_callback == Thunk(loc[t].hnl, op[t].callback)
            nHUser == HUser(op[t].user_handle, loc[t].hnl)
            r == ReqOutcome(s, <<>>)
            c == DllCall("AdsSyncAddDeviceNotificationReq", ADSIGRP_SYM_VALBYHND,
                         loc[t].hnl, nHUser, "-", s)
        IN
        /\ IF r.kind = "ADSError"
           THEN /\ calls' = [calls EXCEPT ![t] = Append(@, c)]
                /\ Finish(t, r)
                /\ UNCHANGED devReg
           ELSE \E n \in NotifHandles :
                /\ devReg[n] = NoReg
                /\ calls' = [calls EXCEPT ![t] = Append(@, [c EXCEPT !.ret = n])]
                /\ devReg' = [devReg EXCEPT ![n] = [thunk |-> c_callback, huser |-> nHUser]]
                /\ Goto(t, "add_store",
                        [loc[t] EXCEPT !.c_callback = c_callback, !.pNotification = n])
    /\ UNCHANGED <<op, callback_store, relCount, nextHnl, subs, nops, invoked,
                   env, devVal, hndName>>

\* callback_store[pNotification.value] = c_callback
\* return (pNotification.value, hnl)
AddStore(t) ==
    /\ pc[t] = "add_store"
    /\ callback_store' = [callback_store EXCEPT ![loc[t].pNotification] = loc[t].c_callback]
    /\ Finish(t, Returned(<<loc[t].pNotification, loc[t].hnl>>))
    /\ subs' = subs \cup {[n |-> loc[t].pNotification, hnl |-> loc[t].hnl, del |-> FALSE]}
    /\ UNCHANGED <<op, calls, devReg, relCount, nextHnl, nops, invoked,
                   env, devVal, hndName>>

(***************************************************************************)
(* adsSyncDelDeviceNotificationReq                                         *)
(***************************************************************************)
DelOp(notification_handle, user_handle) ==
    [NoOp EXCEPT !.fn = "adsSyncDelDeviceNotificationReq",
                 !.notification_handle = notification_handle,
                 !.user_handle = user_handle]

\* Thread t is inside adsSyncDelDeviceNotificationReq for notification handle n.
Deleting(t, n) ==
    /\ pc[t] \in {"del_store", "del_release"}
    /\ op[t].notification_handle = n

\* The arguments of env.stray whose notification handle has never been
\* registered: the device holds nothing under it and callback_store has no key.
StrayDels ==
    {p \in env.stray : devReg[p.n] = NoReg /\ callback_store[p.n] = NoThunk}

\* err_code = AdsSyncDelDeviceNotificationReq(pAmsAddr, nHNotification)
\* The caller passes the pair a successful add returned, or arguments of
\* env.stray. On status 0 the device drops the registration, and may hand the
\* notification handle out again.
DelDeregister(t) ==
    /\ \E sub \in subs \cup StrayDels, s \in Status :
        /\ \A u \in Threads : ~Deleting(u, sub.n)
        /\ IF ~platform_is_windows
           THEN /\ Refused(t, DelOp(sub.n, sub.hnl))
                /\ UNCHANGED <<devReg, subs>>
           ELSE
           /\ Begin(t, DelOp(sub.n, sub.hnl))
           /\ calls' = [calls EXCEPT ![t] =
                  <<DllCall("AdsSyncDelDeviceNotificationReq", "-", 0, sub.n, "-", s)>>]
           /\ Goto(t, "del_store", [NoLoc EXCEPT !.err_code = s])
           /\ IF s = 0
              THEN /\ devReg' = [devReg EXCEPT ![sub.n] = NoReg]
                   /\ subs' = subs \ {sub}
              ELSE /\ subs' = IF sub \in subs
                              THEN (subs \ {sub}) \cup {[sub EXCEPT !.del = TRUE]}
                              ELSE subs
                   /\ UNCHANGED devReg
    /\ UNCHANGED <<callback_store, relCount, nextHnl, invoked,
                   env, devVal, hndName>>

\* DelStore with the registry write after the status check.
DelStoreAfterCheck(t) ==
    /\ pc[t] = "del_store"
    /\ LET r == ReqOutcome(loc[t].err_code, <<>>) IN
       IF r.kind = "ADSError"
       THEN /\ Finish(t, r)
            /\ UNCHANGED callback_store
       ELSE /\ Goto(t, "del_release", loc[t])
            /\ callback_store' =
                   [callback_store EXCEPT ![op[t].notification_handle] = PyNone]
    /\ UNCHANGED <<op, calls, devReg, relCount, nextHnl, subs, nops, invoked,
                   env, devVal, hndName>>

\* DelStore with `del callback_store[notification_handle]` as the registry write.
DelStoreDeleting(t) ==
    /\ pc[t] = "del_store"
    /\ callback_store' = [callback_store EXCEPT ![op[t].notification_handle] = NoThunk]
    /\ LET r == ReqOutcome(loc[t].err_code, <<>>) IN
       IF r.kind = "ADSError"
       THEN Finish(t, r)
       ELSE Goto(t, "del_release", loc[t])
    /\ UNCHANGED <<op, calls, devReg, relCount, nextHnl, subs, nops, invoked,
                   env, devVal, hndName>>

\* callback_store[notification_handle] = None
\* if err_code: raise ADSError(err_code)
DelStore(t) ==
    /\ pc[t] = "del_store"
    /\ callback_store' = [callback_store EXCEPT ![op[t].notification_handle] = PyNone]
    /\ LET r == ReqOutcome(loc[t].err_code, <<>>) IN
       IF r.kind = "ADSError"
       THEN Finish(t, r)
       ELSE Goto(t, "del_release", loc[t])
    /\ UNCHANGED <<op, calls, devReg, relCount, nextHnl, subs, nops, invoked,
                   env, devVal, hndName>>

\* adsSyncWriteReq(adr, ADSIGRP_SYM_RELEASEHND, 0, user_handle, PLCTYPE_UDINT)
DelRelease(t) ==
    /\ pc[t] = "del_release"
    /\ Release(t, op[t].user_handle, <<>>)
    /\ UNCHANGED <<op, callback_store, devReg, nextHnl, subs, nops, invoked,
                   env, devVal, hndName>>

(***************************************************************************)
(* Device: notification delivery                                           *)
(***************************************************************************)
\* The DLL calls the thunk it was given at registration, on its own thread. If
\* no Python reference holds the thunk any more, the thunk has been freed and the
\* call is undefined: any callback may run, or the process crashes.
Notify(n) ==
    /\ devReg[n] # NoReg
    /\ nops > 0
    /\ nops' = nops - 1
    /\ \E cb \in Callbacks \cup {"crash"} :
        /\ Live(devReg[n].thunk) => cb = devReg[n].thunk.cb
        /\ invoked' = [n |-> n, thunk |-> devReg[n].thunk, cb |-> cb]
    /\ UNCHANGED <<pc, op, loc, calls, result, callback_store, devReg, relCount,
                   nextHnl, subs, env, devVal, hndName>>

\* The request layer, called from two threads.
NextReq ==
    \E t \in Threads :
        \/ adsSyncWriteControlReq(t)
        \/ adsSyncWriteReq(t)
        \/ adsSyncReadWriteReq(t)
        \/ adsSyncReadReq(t)

SpecReq == Init /\ [][NextReq]_vars

\* The request layer, called with string payloads by one caller.
NextString ==
    \E t \in {"t1"} :
        \/ adsSyncWriteControlReqString(t)
        \/ adsSyncWriteReqString(t)
        \/ adsSyncReadWriteReqString(t)

SpecString == Init /\ [][NextString]_vars

\* The statements that start a public function. On a host that is not Windows
\* no other statement is ever reached.
NextPosix ==
    \E t \in Threads :
        \/ adsSyncWriteControlReq(t)
        \/ adsSyncWriteReq(t)
        \/ adsSyncReadWriteReq(t)
        \/ adsSyncReadReq(t)
        \/ ReadByNameResolve(t)
        \/ WriteByNameResolve(t)
        \/ AddResolve(t)
        \/ DelDeregister(t)

SpecPosix == InitPosix /\ [][NextPosix]_vars

\* The symbolic helpers called one after the other by one caller, with every
\* symbol and every value.
NextVal ==
    \E t \in {"t1"} :
        \/ ReadByNameResolve(t)
        \/ ReadByNameRead(t)
        \/ ReadByNameRelease(t)
        \/ WriteByNameResolve(t)
        \/ WriteByNameWrite(t)
        \/ WriteByNameRelease(t)

SpecVal == InitVal /\ [][NextVal]_vars

\* The notification functions and the device's deliveries, from two threads.
NextNotif ==
    \/ \E t \in Threads :
        \/ AddResolve(t)
        \/ AddRegister(t)
        \/ AddStore(t)
        \/ DelDeregister(t)
        \/ DelStore(t)
        \/ DelRelease(t)
    \/ \E n \in NotifHandles : Notify(n)

SpecNotif == InitNotif /\ [][NextNotif]_vars

\* The same, with callers that also tear down handles nobody registered.
SpecStray == InitStray /\ [][NextNotif]_vars

\* The symbolic helpers, the notification functions and the device's deliveries,
\* from two threads.
Next ==
    \/ \E t \in Threads :
        \/ ReadByNameResolve(t)
        \/ ReadByNameRead(t)
        \/ ReadByNameRelease(t)
        \/ WriteByNameResolve(t)
        \/ WriteByNameWrite(t)
        \/ WriteByNameRelease(t)
        \/ AddResolve(t)
        \/ AddRegister(t)
        \/ AddStore(t)
        \/ DelDeregister(t)
        \/ DelStore(t)
        \/ DelRelease(t)
    \/ \E n \in NotifHandles : Notify(n)

Spec == Init /\ [][Next]_vars

(***************************************************************************)
(* Vocabulary of the properties                                            *)
(***************************************************************************)
ByNameFns == {"adsSyncReadByName", "adsSyncWriteByName"}
RequestFns == {"adsSyncReadReq", "adsSyncWriteReq", "adsSyncReadWriteReq",
               "adsSyncWriteControlReq"}

\* Thread t has finished an invocation of fn.
Ended(t, fn) == pc[t] = "idle" /\ op[t].fn = fn

\* The positions in calls[t] of the release requests carrying handle h.
ReleasesOf(t, h) ==
    {i \in 1..Len(calls[t]) :
        /\ calls[t][i].fn = "AdsSyncWriteReq"
        /\ calls[t][i].grp = ADSIGRP_SYM_RELEASEHND
        /\ calls[t][i].data = h}

\* The invocation of t resolved a handle and its second DLL call failed.
SecondCallFailed(t) == Len(calls[t]) >= 2 /\ calls[t][2].status # 0

\* Handle h still has an owner: a running call that resolved it, a subscription
\* a caller holds, or a running teardown of its subscription.
Owned(h) ==
    \/ \E t \in Threads : pc[t] # "idle" /\ loc[t].hnl = h
    \/ \E sub \in subs : sub.hnl = h
    \/ \E t \in Threads : pc[t] \in {"del_store", "del_release"} /\ op[t].user_handle = h

\* The add call that registered notification handle n has returned.
AddReturned(n) == \A t \in Threads : ~(pc[t] = "add_store" /\ loc[t].pNotification = n)

(***************************************************************************)
(* C1: every handle obtained by name resolution is released exactly once:  *)
(* never more than one release request per handle, and exactly one once    *)
(* its one-shot call has ended or its subscription has been torn down.     *)
(***************************************************************************)
C1_ReleasedExactlyOnce ==
    \A h \in Hnls :
        h < nextHnl =>
            /\ relCount[h] <= 1
            /\ ~Owned(h) => relCount[h] = 1

(***************************************************************************)
(* C2: when adsSyncReadByName resolved handle h and the read on            *)
(* ADSIGRP_SYM_VALBYHND failed, exactly one release request carrying h has *)
(* been issued by the time the error reaches the caller.                   *)
(***************************************************************************)
C2_ReadFailureReleases ==
    \A t \in Threads :
        (Ended(t, "adsSyncReadByName") /\ SecondCallFailed(t)) =>
            Cardinality(ReleasesOf(t, calls[t][2].off)) = 1

(***************************************************************************)
(* C3: when adsSyncAddDeviceNotificationReq resolved a handle and the      *)
(* register call failed, the handle has been released by the time the      *)
(* ADSError reaches the caller.                                            *)
(***************************************************************************)
C3_RegisterFailureReleases ==
    \A t \in Threads :
        (Ended(t, "adsSyncAddDeviceNotificationReq") /\ SecondCallFailed(t)) =>
            ReleasesOf(t, calls[t][2].off) # {}

(***************************************************************************)
(* C4: every finished adsSyncDelDeviceNotificationReq issued the           *)
(* deregister call and then the release of user_handle, also when the      *)
(* deregister call failed, and a deregister error is the one propagated.   *)
(* (The registry write lies between the two calls: see DelStore.)          *)
(***************************************************************************)
C4_DelAlwaysReleases ==
    \A t \in Threads :
        Ended(t, "adsSyncDelDeviceNotificationReq") =>
            /\ Len(calls[t]) = 2
            /\ calls[t][1].fn = "AdsSyncDelDeviceNotificationReq"
            /\ ReleasesOf(t, op[t].user_handle) = {2}
            /\ calls[t][1].status # 0 =>
                   (result[t].kind = "ADSError" /\ result[t].err_code = calls[t][1].status)

(***************************************************************************)
(* C5: for every notification handle n still registered on the device (its *)
(* add call has returned, no deregister call for it has succeeded),        *)
(* callback_store[n] holds the thunk the device would call.                *)
(***************************************************************************)
C5_RegisteredThunkKept ==
    \A n \in NotifHandles :
        (devReg[n] # NoReg /\ AddReturned(n)) => callback_store[n] = devReg[n].thunk

(***************************************************************************)
(* C6: the registry write of an unsubscribe whose deregister call          *)
(* succeeded (callback_store[n] = None) never clears the entry a           *)
(* concurrent subscribe has stored for a new subscription that the device  *)
(* gave the same notification handle n.                                    *)
(***************************************************************************)
C6_DelKeepsNewEntry ==
    [][\A t \in Threads :
          LET n == op[t].notification_handle IN
          (pc[t] = "del_store" /\ pc'[t] # "del_store" /\ loc[t].err_code = 0) =>
              ~(devReg[n] # NoReg /\ callback_store[n] = devReg[n].thunk)]_vars

C8_PrimaryErrorKept ==
    \A t \in Threads :
        (pc[t] = "idle" /\ op[t].fn \in ByNameFns /\ SecondCallFailed(t)) =>
            /\ result[t].kind = "ADSError"
            /\ result[t].err_code = calls[t][2].status

C8_Witness ==
    \E t \in Threads :
        /\ Ended(t, "adsSyncReadByName")
        /\ SecondCallFailed(t)
        /\ calls[t][2].grp = ADSIGRP_SYM_VALBYHND
        /\ calls[t][2].status = 1861
        /\ result[t].err_code = 1861

(***************************************************************************)
(* C9: when adsSyncWriteByName resolved handle h and the write on          *)
(* ADSIGRP_SYM_VALBYHND failed, a release request carrying h has been      *)
(* issued by the time the error reaches the caller.                        *)
(***************************************************************************)
C9_WriteFailureReleases ==
    \A t \in Threads :
        (Ended(t, "adsSyncWriteByName") /\ SecondCallFailed(t)) =>
            ReleasesOf(t, calls[t][2].off) # {}

(***************************************************************************)
(* C10: for two subscriptions the callers hold and have called no teardown *)
(* on, with distinct notification handles A and B, the registry maps A and *)
(* B to the thunks registered for them, and a notification for A runs the  *)
(* callback of A's thunk.                                                  *)
(***************************************************************************)
C10_DispatchToOwnCallback ==
    \A A \in subs, B \in subs :
        (A.n # B.n /\ ~A.del /\ ~B.del) =>
            /\ callback_store[A.n] = devReg[A.n].thunk
            /\ callback_store[B.n] = devReg[B.n].thunk
            /\ (invoked.n = A.n /\ invoked.thunk = devReg[A.n].thunk) =>
                   invoked.cb = devReg[A.n].thunk.cb

\* Every DLL call of t's invocation was answered with status 0.
AllZero(t) == \A i \in 1..Len(calls[t]) : calls[t][i].status = 0

C12_WriteThenRead ==
    \A t \in Threads :
        /\ (Ended(t, "adsSyncWriteByName") /\ AllZero(t)) =>
               devVal[op[t].name] = op[t].value
        /\ (Ended(t, "adsSyncReadByName") /\ AllZero(t)) =>
               result[t] = Returned(<<devVal[op[t].name]>>)

C12_Witness ==
    \E t \in Threads :
        /\ Ended(t, "adsSyncReadByName")
        /\ AllZero(t)
        /\ op[t].name = "MAIN.iVar"
        /\ result[t] = Returned(<<1>>)
        /\ devVal["MAIN.bVar"] = 0

(***************************************************************************)
(* C13: on a platform that is not Windows every public function that has   *)
(* been called ended with RuntimeError without issuing a DLL call, and     *)
(* callback_store and the device are as they were at the start.            *)
(***************************************************************************)
C13_RefusedOffWindows ==
    ~env.windows =>
        /\ \A t \in Threads :
               op[t].fn # "-" =>
                   (pc[t] = "idle" /\ result[t] = RuntimeError /\ calls[t] = <<>>)
        /\ callback_store = [n \in NotifHandles |-> NoThunk]
        /\ devReg = [n \in NotifHandles |-> NoReg]
        /\ nextHnl = 1

C13_Witness ==
    /\ ~env.windows
    /\ \E t, u \in Threads :
        /\ Ended(t, "adsSyncDelDeviceNotificationReq")
        /\ Ended(u, "adsSyncAddDeviceNotificationReq")
        /\ result[t] = RuntimeError
        /\ result[u] = RuntimeError

(***************************************************************************)
(* C14: a successful adsSyncAddDeviceNotificationReq returns the pair of   *)
(* the notification handle the device assigned and the user handle that    *)
(* was registered with the device.                                         *)
(***************************************************************************)
C14_ReturnsRegisteredUserHandle ==
    \A t \in Threads :
        (Ended(t, "adsSyncAddDeviceNotificationReq") /\ result[t].kind = "return") =>
            result[t].value = <<calls[t][2].ret, calls[t][2].data>>

FailedAddLeftNothing ==
    \A t \in Threads :
        Ended(t, "adsSyncAddDeviceNotificationReq") =>
            /\ calls[t][1].status # 0 => Len(calls[t]) = 1
            /\ (result[t].kind = "ADSError" /\ Len(calls[t]) = 2) =>
                   \A n \in NotifHandles :
                       /\ ~(callback_store[n].kind = "thunk"
                            /\ callback_store[n].id = calls[t][2].off)
                       /\ devReg[n].thunk.id # calls[t][2].off

\* The resolve and register steps of adsSyncAddDeviceNotificationReq leave
\* callback_store alone, and an entry becomes a thunk only in the step after a
\* register call answered with status 0, under the handle that call read back.
StoreOnlyAfterRegister ==
    /\ \A t \in Threads :
           (/\ pc[t] \in {"idle", "add_register"}
            /\ op'[t].fn = "adsSyncAddDeviceNotificationReq"
            /\ calls'[t] # calls[t]) => callback_store' = callback_store
    /\ \A n \in NotifHandles :
           (callback_store'[n] # callback_store[n] /\ callback_store'[n].kind = "thunk") =>
               \E t \in Threads :
                   /\ pc[t] = "add_store"
                   /\ calls[t][2].status = 0
                   /\ calls[t][2].ret = n
                   /\ callback_store'[n] = Thunk(calls[t][2].off, op[t].callback)

(***************************************************************************)
(* C16: a failed adsSyncAddDeviceNotificationReq creates no subscription:  *)
(* after a failed name resolution no register call is issued, a call that  *)
(* raised has written nothing to callback_store, and an entry is written   *)
(* only after the register call returned status 0, under the notification  *)
(* handle the device returned.                                             *)
(***************************************************************************)
C16_FailedAddStoresNothing == []FailedAddLeftNothing /\ [][StoreOnlyAfterRegister]_vars

C16_Witness ==
    \E t, u \in Threads :
        /\ Ended(t, "adsSyncAddDeviceNotificationReq")
        /\ Len(calls[t]) = 2
        /\ result[t] = ADSError(calls[t][2].status)
        /\ Ended(u, "adsSyncAddDeviceNotificationReq")
        /\ Len(calls[u]) = 1
        /\ result[u] = ADSError(calls[u][1].status)
        /\ callback_store = [n \in NotifHandles |-> NoThunk]

(***************************************************************************)
(* C17: no step removes a key of callback_store; the registry write of     *)
(* adsSyncDelDeviceNotificationReq sets the entry of its notification      *)
(* handle to None, also when the handle had no key, and changes no other   *)
(* entry; an entry that is None changes only in the storing step of an     *)
(* adsSyncAddDeviceNotificationReq that the device gave the same handle.   *)
(***************************************************************************)
C17_KeysNeverLeave ==
    [][/\ \A n \in NotifHandles :
           /\ callback_store[n] # NoThunk => callback_store'[n] # NoThunk
           /\ (callback_store[n] = PyNone /\ callback_store'[n] # PyNone) =>
                  \E t \in Threads :
                      /\ pc[t] = "add_store"
                      /\ loc[t].pNotification = n
                      /\ callback_store'[n] = loc[t].c_callback
       /\ \A t \in Threads :
           (pc[t] = "del_store" /\ pc'[t] # "del_store") =>
               callback_store' =
                   [callback_store EXCEPT ![op[t].notification_handle] = PyNone]]_vars

C17_Witness ==
    \E t \in Threads, n \in NotifHandles :
        /\ Ended(t, "adsSyncDelDeviceNotificationReq")
        /\ op[t].notification_handle = n
        /\ op[t].user_handle = 0
        /\ callback_store[n] = PyNone
        /\ devReg[n] = NoReg
        /\ \E m \in NotifHandles : callback_store[m].kind = "thunk"

(***************************************************************************)
(* C18: for a string payload, adsSyncWriteReq, adsSyncWriteControlReq and  *)
(* adsSyncReadWriteReq each pass the DLL the number of bytes of the        *)
(* encoded text plus one as the payload length.                            *)
(***************************************************************************)
C18_SameStringLength ==
    \A t \in Threads :
        (pc[t] = "idle" /\ op[t].fn \in RequestFns /\ Len(calls[t]) = 1) =>
            calls[t][1].len = Len(encode(calls[t][1].text)) + 1
====
